---- MODULE Spec2Model ----
(***************************************************************************)
(* Model of scraper/scrape_transport_fc.py: the coordinate resolver        *)
(* (resolve_stop_coordinates / geocode_stop), the collection run of        *)
(* __main__ (scrape_all, flatten, dedupe, sort, zero-stops guard, files)   *)
(* and the bounded crawler (_bfs_collect).                                 *)
(*                                                                         *)
(* Text is modelled as a sequence of one-character strings, so that        *)
(* normalisation, suffix tests, substring tests and rstrip are computed.   *)
(* A Python value that may be None is modelled as a sequence: None is <<>>,*)
(* a float x is <<x>>, a pair (a, b) is <<a, b>> of such values.           *)
(* Coordinates are integers in units of 10^-7 degree.                      *)
(***************************************************************************)
EXTENDS Integers, Sequences, FiniteSets, TLC

\* ------------------------------------------------------------------------
\* Python values
\* ------------------------------------------------------------------------
None == <<>>

Float(x) == <<x>>

Pair(a, b) == <<a, b>>

\* ------------------------------------------------------------------------
\* Characters (printable ASCII, code points 32..126; the double quote, the
\* backslash and the backtick are place-holders, no modelled text uses them)
\* ------------------------------------------------------------------------
Ascii ==
  << " ", "!", "<dq>", "#", "$", "%", "&", "'", "(", ")", "*", "+", ",", "-", ".", "/",
     "0", "1", "2", "3", "4", "5", "6", "7", "8", "9", ":", ";", "<", "=", ">", "?",
     "@", "A", "B", "C", "D", "E", "F", "G", "H", "I", "J", "K", "L", "M", "N", "O",
     "P", "Q", "R", "S", "T", "U", "V", "W", "X", "Y", "Z", "[", "<bs>", "]", "^", "_",
     "<bt>", "a", "b", "c", "d", "e", "f", "g", "h", "i", "j", "k", "l", "m", "n", "o",
     "p", "q", "r", "s", "t", "u", "v", "w", "x", "y", "z", "{", "|", "}", "~" >>

CodeTable ==
  [c \in {Ascii[i] : i \in 1..Len(Ascii)} |->
     31 + (CHOOSE i \in 1..Len(Ascii) : Ascii[i] = c)]

\* ord(c)
Code(c) == CodeTable[c]

Chr(n) == Ascii[n - 31]

IsUpper(c) == Code(c) \in 65..90

IsAlnum(c) == Code(c) \in (48..57) \cup (65..90) \cup (97..122)

\* \s of the regular expressions, restricted to the modelled characters
IsSpace(c) == c = " "

\* \w of the regular expressions
IsWord(c) == IsAlnum(c) \/ c = "_"

LowerChar(c) == IF IsUpper(c) THEN Chr(Code(c) + 32) ELSE c

UpperChar(c) == IF Code(c) \in 97..122 THEN Chr(Code(c) - 32) ELSE c

\* str.lower()
Lower(s) == [i \in 1..Len(s) |-> LowerChar(s[i])]

\* str.upper()
Upper(s) == [i \in 1..Len(s) |-> UpperChar(s[i])]

\* s.startswith(p)
StartsWith(s, p) == Len(p) <= Len(s) /\ SubSeq(s, 1, Len(p)) = p

\* s.endswith(p)
EndsWith(s, p) == Len(p) <= Len(s) /\ SubSeq(s, Len(s) - Len(p) + 1, Len(s)) = p

\* p in s
Contains(s, p) == \E i \in 1..(Len(s) - Len(p) + 1) : SubSeq(s, i, i + Len(p) - 1) = p

\* tuple / string comparison of Python: lexicographic, by code point
RECURSIVE LexLess(_, _)
LexLess(a, b) ==
  IF b = <<>> THEN FALSE
  ELSE IF a = <<>> THEN TRUE
  ELSE IF Code(Head(a)) # Code(Head(b)) THEN Code(Head(a)) < Code(Head(b))
  ELSE LexLess(Tail(a), Tail(b))

\* re.sub(r"\s+", " ", s)
RECURSIVE CollapseSpace(_)
CollapseSpace(s) ==
  IF s = <<>> THEN <<>>
  ELSE IF IsSpace(Head(s))
       THEN IF Len(s) > 1 /\ IsSpace(s[2]) THEN CollapseSpace(Tail(s))
            ELSE <<" ">> \o CollapseSpace(Tail(s))
       ELSE <<Head(s)>> \o CollapseSpace(Tail(s))

RECURSIVE LStrip(_)
LStrip(s) == IF s # <<>> /\ IsSpace(Head(s)) THEN LStrip(Tail(s)) ELSE s

RECURSIVE RStrip(_)
RStrip(s) ==
  IF s # <<>> /\ IsSpace(s[Len(s)]) THEN RStrip(SubSeq(s, 1, Len(s) - 1)) ELSE s

\* str.strip()
Strip(s) == LStrip(RStrip(s))

\* re.sub(r"[^\w\s-]", "", s)
DropPunct(s) == SelectSeq(s, LAMBDA c : IsWord(c) \/ IsSpace(c) \/ c = "-")

normalize_stop_name(name) == DropPunct(Lower(Strip(CollapseSpace(name))))

\* python-slugify, restricted to the modelled characters: lower-case, every
\* run of non-alphanumeric characters becomes one "-", outer "-" stripped
RECURSIVE DashRuns(_)
DashRuns(s) ==
  IF s = <<>> THEN <<>>
  ELSE IF IsAlnum(Head(s)) THEN <<Head(s)>> \o DashRuns(Tail(s))
  ELSE IF Len(s) > 1 /\ ~IsAlnum(s[2]) THEN DashRuns(Tail(s))
  ELSE <<"-">> \o DashRuns(Tail(s))

RECURSIVE StripDash(_)
StripDash(s) ==
  IF s # <<>> /\ Head(s) = "-" THEN StripDash(Tail(s))
  ELSE IF s # <<>> /\ s[Len(s)] = "-" THEN StripDash(SubSeq(s, 1, Len(s) - 1))
  ELSE s

slugify(text) == StripDash(DashRuns(Lower(text)))

\* ------------------------------------------------------------------------
\* Bounds of the modelled runs
\* ------------------------------------------------------------------------
\* PDF links on the employee-transport page
MaxPdfs == 2

\* stop entries resolved in one run, over all PDFs
MaxResolves == 2

\* route pages found over the carrier sites
MaxHtmlPages == 2

\* ------------------------------------------------------------------------
\* Configuration
\* ------------------------------------------------------------------------
FC_SUBS ==
  << <<"s","z","z","1">>, <<"p","o","z","2">>, <<"p","o","z","1">>,
     <<"k","t","w","1">>, <<"k","t","w","3">>, <<"k","t","w","5">>,
     <<"w","r","o","1">>, <<"w","r","o","2">>, <<"w","r","o","3">>,
     <<"w","r","o","4">>, <<"w","r","o","5">>,
     <<"l","c","j","2">>, <<"l","c","j","3">>, <<"l","c","j","4">> >>

DUPLICATE_WRO_BY_FC == FALSE

UNKNOWN == <<"U","N","K","N","O","W","N">>

WRO == <<"W","R","O">>

\* ------------------------------------------------------------------------
\* Inputs of the modelled runs
\* ------------------------------------------------------------------------
\* what is left of a PDF line once times and inline coordinates are removed
\* (lines 268-270); the first two give names that normalise to "ryn", the
\* third gives "dwa", the last two give no entry
PdfNameParts ==
  { <<"R","y","n">>, <<"-"," ","r","y","n","."," "," ","-">>, <<"D","w","a"," ",":">>,
    <<"R","y">>, <<" ","-"," ",";">> }

\* str.strip(" -:;|"), restricted to the modelled characters
RECURSIVE StripSeparators(_)
StripSeparators(s) ==
  IF s # <<>> /\ Head(s) \in {" ", "-", ":", ";", "|"} THEN StripSeparators(Tail(s))
  ELSE IF s # <<>> /\ s[Len(s)] \in {" ", "-", ":", ";", "|"}
       THEN StripSeparators(SubSeq(s, 1, Len(s) - 1))
  ELSE s

\* lines 272-280: the stop_name of the entries parse_pdf_stop_lines appends
StopNames ==
  { name_part \in {StripSeparators(CollapseSpace(part)) : part \in PdfNameParts} :
      ~(name_part = <<>> \/ Len(name_part) < 3) }

\* coordinate pairs found inline in a PDF line
InlinePairs == { Pair(Float(511000000), Float(170300000)) }

\* best matches the geocoder may return
GeoPairs == { <<512000000, 171000000>> }

\* what one live geocoder request does: the request or its JSON decoding
\* raises, the result list is empty, the first result has no usable
\* lat/lon, or it has one
GeoOutcomes ==
  { [kind |-> "fail", lat |-> 0, lon |-> 0],
    [kind |-> "empty", lat |-> 0, lon |-> 0],
    [kind |-> "malformed", lat |-> 0, lon |-> 0] }
  \cup { [kind |-> "ok", lat |-> p[1], lon |-> p[2]] : p \in GeoPairs }

\* the i-th PDF linked from the employee-transport page
PdfUrl(i) == <<"p", Chr(48 + i), ".", "p", "d", "f">>

\* the route title inferred from the i-th PDF: odd ones name a carrier
\* code, even ones do not
PdfTitle(i) ==
  IF i % 2 = 1 THEN <<"K","T","W","1"," ","A">> ELSE <<"L","i","n","e">>

VARIABLES
  GEOCODE_ENABLED,   \* configuration flag, fixed for the process
  run_pc,            \* position of __main__
  data_file,         \* data/stops.json
  data_file_before,  \* its content when the process started
  cache_file,        \* data/geocode_cache.json
  changes_file,      \* data/changes.json
  prev_wrapper, prev, prev_index, geocode_cache,
  pdf_i,             \* index of the PDF link being processed
  pdf_n,             \* number of PDF links
  cur,               \* the PDF being processed: labels and stop_rows
  calls,             \* resolve_stop_coordinates calls made so far
  html_n,            \* route pages processed by the HTML collection
  routes, all_stops,
  item_failed,       \* the latest step was a failed download or parse of a PDF
                     \* or of a page of a carrier site
  events,            \* geocoder requests and rate-limit sleeps, in order
  last               \* the latest resolve_stop_coordinates call for the open PDF

runVars ==
  << GEOCODE_ENABLED, run_pc, data_file, data_file_before, cache_file,
     changes_file, prev_wrapper, prev, prev_index, geocode_cache, pdf_i, pdf_n,
     cur, calls, html_n, routes, all_stops, item_failed, events, last >>

VARIABLES
  site,        \* the site crawled
  crawl_pc,    \* "idle", "loop" or "done"
  host,        \* netloc of host_base
  seen, queue, kept,
  fetched,     \* URLs requested with get(), in order
  fetch_failed, \* the URLs whose get() raised
  admitted,    \* the link URLs, as _links gave them, that were enqueued
  pages        \* the value returned by _bfs_collect

crawlVars ==
  <<site, crawl_pc, host, seen, queue, kept, fetched, fetch_failed, admitted, pages>>

VARIABLES
  fn_pc,       \* which pure function is applied, and how far
  fn_in,       \* its argument
  fn_out,      \* its result
  fn_again     \* the result of applying it to its own result

fnVars == <<fn_pc, fn_in, fn_out, fn_again>>

\* ------------------------------------------------------------------------
\* Geocode cache and resolver
\* ------------------------------------------------------------------------
NegativeEntry == [lat |-> None, lon |-> None]

\* cache[key] = entry
PutAlone(cache, key, entry) == [k \in {key} |-> entry]

Put(cache, key, entry) ==
  [k \in (DOMAIN cache) \cup {key} |-> IF k = key THEN entry ELSE cache[k]]

GeocodeCall(key) == [ev |-> "geocode", key |-> key]

GeocodeSleep(key) == [ev |-> "sleep", key |-> key]

\* line 166: is the normalised name in the cache
CacheHitNegativeAsMiss(cache, key) ==
  key \in DOMAIN cache /\ cache[key] # NegativeEntry

CacheHit(cache, key) == key \in DOMAIN cache

\* lines 167-170: the value returned on a cache hit
CachedResult(cache, key) ==
  LET cached == cache[key] IN
  [ret |-> IF "lat" \in DOMAIN cached /\ "lon" \in DOMAIN cached
           THEN Pair(cached.lat, cached.lon) ELSE None,
   cache |-> cache, events |-> <<>>]

\* lines 179-202: the request raised, returned nothing or returned a first
\* result without usable lat/lon
FailedLookupUncached(cache, key) ==
  [ret |-> None, cache |-> cache, events |-> <<GeocodeCall(key)>>]

FailedLookup(cache, key) ==
  [ret |-> None, cache |-> Put(cache, key, NegativeEntry),
   events |-> <<GeocodeCall(key)>>]

\* lines 197-206: the request returned a usable best match
BestMatchNoSleep(cache, key, outcome) ==
  [ret |-> Pair(Float(outcome.lat), Float(outcome.lon)),
   cache |-> Put(cache, key, [lat |-> Float(outcome.lat), lon |-> Float(outcome.lon)]),
   events |-> <<GeocodeCall(key)>>]

BestMatch(cache, key, outcome) ==
  [ret |-> Pair(Float(outcome.lat), Float(outcome.lon)),
   cache |-> Put(cache, key, [lat |-> Float(outcome.lat), lon |-> Float(outcome.lon)]),
   events |-> <<GeocodeCall(key), GeocodeSleep(key)>>]

\* geocode_stop with the cache consulted before the configuration flag
geocode_stop_CacheFirst(name, cache, outcome) ==
  LET key == normalize_stop_name(name) IN
  IF CacheHit(cache, key) THEN CachedResult(cache, key)
  ELSE IF ~GEOCODE_ENABLED THEN [ret |-> None, cache |-> cache, events |-> <<>>]
  ELSE IF outcome.kind \in {"fail", "empty", "malformed"} THEN FailedLookup(cache, key)
  ELSE BestMatch(cache, key, outcome)

\* geocode_stop: the value returned, the cache afterwards and the requests
\* and sleeps performed, for one outcome of the live request
geocode_stop(name, cache, outcome) ==
  IF ~GEOCODE_ENABLED THEN [ret |-> None, cache |-> cache, events |-> <<>>]
  ELSE
    LET key == normalize_stop_name(name) IN
    IF CacheHit(cache, key) THEN CachedResult(cache, key)
    ELSE IF outcome.kind \in {"fail", "empty", "malformed"} THEN FailedLookup(cache, key)
    ELSE BestMatch(cache, key, outcome)

\* lines 308-314: the prior-index entry used for a stop
PriorResultFirst(fc_label, index, cache, norm) ==
  LET item == index[norm][1]
  IN [ret |-> Pair(item.lat, item.lon), cache |-> cache, events |-> <<>>]

PriorResult(fc_label, index, cache, norm) ==
  LET candidates == index[norm]
      matching == {i \in 1..Len(candidates) : candidates[i].fc = fc_label}
      item == IF fc_label # None /\ matching # {}
              THEN candidates[CHOOSE i \in matching : \A j \in matching : i <= j]
              ELSE candidates[1]
  IN [ret |-> Pair(item.lat, item.lon), cache |-> cache, events |-> <<>>]

\* resolve_stop_coordinates with the prior index consulted before the
\* inline coordinate
resolve_PriorFirst(stop_name, fc_label, index, cache, inline_latlon, outcome) ==
  LET norm == normalize_stop_name(stop_name) IN
  IF norm \in DOMAIN index THEN PriorResult(fc_label, index, cache, norm)
  ELSE IF inline_latlon # None
       THEN [ret |-> inline_latlon, cache |-> cache, events |-> <<>>]
  ELSE geocode_stop(stop_name, cache, outcome)

\* resolve_stop_coordinates, same result shape as geocode_stop
resolve_stop_coordinates(stop_name, fc_label, index, cache, inline_latlon, outcome) ==
  IF inline_latlon # None THEN [ret |-> inline_latlon, cache |-> cache, events |-> <<>>]
  ELSE
    LET norm == normalize_stop_name(stop_name) IN
    IF norm \in DOMAIN index THEN PriorResult(fc_label, index, cache, norm)
    ELSE geocode_stop(stop_name, cache, outcome)

\* detect_fc_from_text
detect_fc_from_text(text) ==
  LET lowered == Lower(text)
      hits == {i \in 1..Len(FC_SUBS) : Contains(lowered, FC_SUBS[i])}
  IN IF hits = {} THEN None
     ELSE Upper(FC_SUBS[CHOOSE i \in hits : \A j \in hits : i <= j])

\* build_prev_stop_index; prev_stops is None or <<list>>
build_prev_stop_index(prev_stops) ==
  IF prev_stops = None \/ prev_stops[1] = <<>> THEN <<>>
  ELSE
    LET stops == prev_stops[1]
        Usable(s) == /\ normalize_stop_name(s.stop_name) # <<>>
                     /\ s.lat # None
                     /\ s.lon # None
        names == {normalize_stop_name(stops[i].stop_name) :
                    i \in {j \in 1..Len(stops) : Usable(stops[j])}}
        Entries(n) ==
          LET sel == SelectSeq(stops,
                       LAMBDA s : Usable(s) /\ normalize_stop_name(s.stop_name) = n)
          IN [i \in 1..Len(sel) |-> [lat |-> sel[i].lat, lon |-> sel[i].lon, fc |-> sel[i].fc]]
    IN [n \in names |-> Entries(n)]

\* ------------------------------------------------------------------------
\* Diff & export
\* ------------------------------------------------------------------------
\* round(x, 6) of a coordinate held in units of 10^-7, in units of 10^-6
\* (the modelled coordinates never end in the digit 5)
Round6(v) == (v + 5) \div 10

\* float(x) raises TypeError on None
FloatRaises(x) == x = None

\* make_stop_key raises on a row whose lat or lon is None
KeyRaises(s) == FloatRaises(s.lat) \/ FloatRaises(s.lon)

make_stop_key(s) ==
  <<s.fc, s.route_slug, s.stop_name, Round6(s.lat[1]), Round6(s.lon[1])>>

make_route_key(r) == <<r.fc, r.route_slug>>

\* dedupe_stops keeping the last stop of each key
dedupe_KeepLast(stops_list) ==
  SelectSeq(stops_list,
    LAMBDA s : \E i \in 1..Len(stops_list) :
      /\ stops_list[i] = s
      /\ \A j \in (i + 1)..Len(stops_list) :
           make_stop_key(stops_list[j]) # make_stop_key(s))

RECURSIVE DedupeAdjacent(_, _)
DedupeAdjacent(list, keys) ==
  IF list = <<>> THEN <<>>
  ELSE LET key == make_stop_key(Head(list)) IN
       IF key \in keys THEN DedupeAdjacent(Tail(list), keys)
       ELSE <<Head(list)>> \o DedupeAdjacent(Tail(list), {key})

RECURSIVE DedupeFrom(_, _)
DedupeFrom(list, keys) ==
  IF list = <<>> THEN <<>>
  ELSE LET key == make_stop_key(Head(list)) IN
       IF key \in keys THEN DedupeFrom(Tail(list), keys)
       ELSE <<Head(list)>> \o DedupeFrom(Tail(list), keys \cup {key})

dedupe_stops(stops_list) == DedupeFrom(stops_list, {})

RECURSIVE duplicate_wro_if_needed(_)
duplicate_wro_if_needed(stops_list) ==
  IF ~DUPLICATE_WRO_BY_FC \/ stops_list = <<>> THEN stops_list
  ELSE LET st == Head(stops_list)
           Clone(n) == LET fc == WRO \o <<Chr(48 + n)>> IN
                       [st EXCEPT !.fc = fc,
                                  !.route_slug = slugify(Lower(fc) \o <<"-">> \o st.route)]
       IN (IF st.fc = WRO THEN <<Clone(1), Clone(2), Clone(3), Clone(4)>> ELSE <<st>>)
          \o duplicate_wro_if_needed(Tail(stops_list))

\* order of Python tuples (fc, route_slug, stop_name, lat, lon)
StopKeyLess(a, b) ==
  IF a[1] # b[1] THEN LexLess(a[1], b[1])
  ELSE IF a[2] # b[2] THEN LexLess(a[2], b[2])
  ELSE IF a[3] # b[3] THEN LexLess(a[3], b[3])
  ELSE IF a[4] # b[4] THEN a[4] < b[4]
  ELSE a[5] < b[5]

\* order of Python tuples (fc, route_slug)
RouteKeyLess(a, b) ==
  IF a[1] # b[1] THEN LexLess(a[1], b[1]) ELSE LexLess(a[2], b[2])

\* list.sort(key=_sort_key): stable
RECURSIVE SortStops(_)
SortStops(list) ==
  IF list = <<>> THEN <<>>
  ELSE LET rest == SortStops(SubSeq(list, 1, Len(list) - 1))
           x == list[Len(list)]
           before == SelectSeq(rest,
                       LAMBDA y : ~StopKeyLess(make_stop_key(x), make_stop_key(y)))
           after == SelectSeq(rest,
                      LAMBDA y : StopKeyLess(make_stop_key(x), make_stop_key(y)))
       IN before \o <<x>> \o after

\* sorted(keys) for a set of stop keys
RECURSIVE SortedStopKeys(_)
SortedStopKeys(keys) ==
  IF keys = {} THEN <<>>
  ELSE LET m == CHOOSE k \in keys : \A o \in keys \ {k} : StopKeyLess(k, o)
       IN <<m>> \o SortedStopKeys(keys \ {m})

\* sorted(keys) for a set of route keys
RECURSIVE SortedRouteKeys(_)
SortedRouteKeys(keys) ==
  IF keys = {} THEN <<>>
  ELSE LET m == CHOOSE k \in keys : \A o \in keys \ {k} : RouteKeyLess(k, o)
       IN <<m>> \o SortedRouteKeys(keys \ {m})

StopKeys(list) == {make_stop_key(list[i]) : i \in 1..Len(list)}

RouteKeys(list) == {make_route_key(list[i]) : i \in 1..Len(list)}

find_by_stop_key(pool, key) ==
  LET hits == {i \in 1..Len(pool) : make_stop_key(pool[i]) = key} IN
  IF hits = {} THEN None
  ELSE LET st == pool[CHOOSE i \in hits : \A j \in hits : i <= j] IN
       [fc |-> st.fc, route |-> st.route, route_slug |-> st.route_slug,
        stop_name |-> st.stop_name, lat |-> st.lat, lon |-> st.lon,
        source |-> st.source, url |-> st.url]

label_route_key(key) == [fc |-> key[1], route_slug |-> key[2]]

MapRouteKeys(keys) == [i \in 1..Len(keys) |-> label_route_key(keys[i])]

MapStopKeys(pool, keys) == [i \in 1..Len(keys) |-> find_by_stop_key(pool, keys[i])]

\* the zero-stops guard of __main__, line 671
NoGuard(stops_list) == FALSE

NoStopsCollected(stops_list) == stops_list = <<>>

\* changes.json written under the zero-stops guard; prev_stops is None or <<list>>
GuardReport(prev_stops) ==
  LET some == prev_stops # None /\ prev_stops[1] # <<>> IN
  [generated |-> 1,
   routes_total_new |-> IF some THEN Cardinality(RouteKeys(prev_stops[1])) ELSE 0,
   stops_total_new |-> IF some THEN Len(prev_stops[1]) ELSE 0,
   new_routes |-> <<>>, removed_routes |-> <<>>,
   new_stops |-> <<>>, removed_stops |-> <<>>]

\* changes.json of a run that collected stops
DiffReportAllNew(prev_stops, stops_list) ==
  LET known == prev_stops # None
      old == IF known THEN prev_stops[1] ELSE <<>>
  IN
  [generated |-> 1,
   routes_total_new |-> Cardinality(RouteKeys(stops_list)),
   stops_total_new |-> Len(stops_list),
   new_routes |-> IF known
     THEN MapRouteKeys(SortedRouteKeys(RouteKeys(stops_list) \ RouteKeys(old))) ELSE <<>>,
   removed_routes |-> IF known
     THEN MapRouteKeys(SortedRouteKeys(RouteKeys(old) \ RouteKeys(stops_list))) ELSE <<>>,
   new_stops |-> IF known
     THEN MapStopKeys(stops_list, SortedStopKeys(StopKeys(stops_list)))
     ELSE <<>>,
   removed_stops |-> IF known
     THEN MapStopKeys(old, SortedStopKeys(StopKeys(old) \ StopKeys(stops_list)))
     ELSE <<>>]

DiffReport(prev_stops, stops_list) ==
  LET known == prev_stops # None
      old == IF known THEN prev_stops[1] ELSE <<>>
  IN
  [generated |-> 1,
   routes_total_new |-> Cardinality(RouteKeys(stops_list)),
   stops_total_new |-> Len(stops_list),
   new_routes |-> IF known
     THEN MapRouteKeys(SortedRouteKeys(RouteKeys(stops_list) \ RouteKeys(old))) ELSE <<>>,
   removed_routes |-> IF known
     THEN MapRouteKeys(SortedRouteKeys(RouteKeys(old) \ RouteKeys(stops_list))) ELSE <<>>,
   new_stops |-> IF known
     THEN MapStopKeys(stops_list, SortedStopKeys(StopKeys(stops_list) \ StopKeys(old)))
     ELSE <<>>,
   removed_stops |-> IF known
     THEN MapStopKeys(old, SortedStopKeys(StopKeys(old) \ StopKeys(stops_list)))
     ELSE <<>>]

\* all_stops of __main__: one row per stop of every route, in order
RECURSIVE FlattenRoutes(_)
FlattenRoutes(rs) ==
  IF rs = <<>> THEN <<>>
  ELSE LET r == Head(rs) IN
       [i \in 1..Len(r.stops) |->
          [fc |-> r.fc, route |-> r.route, route_slug |-> r.route_slug,
           source |-> r.source, stop_name |-> r.stops[i].stop_name,
           lat |-> r.stops[i].lat, lon |-> r.stops[i].lon, url |-> r.stops[i].url]]
       \o FlattenRoutes(Tail(rs))

\* ------------------------------------------------------------------------
\* Files and start states
\* ------------------------------------------------------------------------
\* a file that does not exist (an unreadable one is loaded the same way)
AbsentFile == [kind |-> "absent"]

JsonFile(c) == [kind |-> "json", content |-> c]

KTW1 == <<"K","T","W","1">>

RouteA == <<"K","T","W","1"," ","A">>

\* a row as an earlier run of the PDF collection wrote it
PrevRow(fc, title, name, lat, lon) ==
  [fc |-> fc, route |-> title, route_slug |-> slugify(Lower(fc) \o <<"-">> \o title),
   source |-> PdfUrl(1), stop_name |-> name, lat |-> Float(lat), lon |-> Float(lon),
   url |-> PdfUrl(1)]

StartDataFiles ==
  { AbsentFile,
    JsonFile([generated |-> 0,
              stops |-> <<PrevRow(UNKNOWN, <<"L","i","n","e">>, <<"r","y","n",".">>,
                                  510000000, 170000000),
                          PrevRow(KTW1, RouteA, <<"R","y","n">>, 511000004, 170300000)>>]) }

\* a snapshot holding one stop of one route
OneStopFile ==
  JsonFile([generated |-> 0,
            stops |-> <<PrevRow(KTW1, RouteA, <<"R","y","n">>, 511000004, 170300000)>>])

StartCacheFiles ==
  { AbsentFile,
    JsonFile([k \in {<<"r","y","n">>} |-> NegativeEntry]),
    JsonFile([k \in {<<"d","w","a">>} |->
                [lat |-> Float(513000000), lon |-> Float(172000000)]]) }

\* a route as parse_route_page_with_flag returns it for a shared WRO page
HtmlRoutes ==
  { [fc |-> WRO, route |-> <<"L","1">>,
     route_slug |-> slugify(<<"w","r","o","-">> \o <<"L","1">>),
     source |-> <<"w","/","l","1">>,
     stops |-> << [stop_name |-> <<"R","y","n">>, lat |-> Float(511000000),
                   lon |-> Float(170300000), url |-> <<"o","s","m">>] >>] }

\* the files a run starts from: <<data file, cache file>>
StartFiles ==
  (StartDataFiles \X StartCacheFiles) \cup {<<OneStopFile, AbsentFile>>}

\* load_geocode_cache
load_geocode_cache(file) == IF file.kind = "json" THEN file.content ELSE <<>>

NoCall ==
  [called |-> FALSE, stop_name |-> <<>>, fc_label |-> None, inline |-> None,
   outcome |-> "none", ret |-> None, events |-> <<>>]

RunInit ==
  /\ GEOCODE_ENABLED \in BOOLEAN
  /\ run_pc = "start"
  /\ \E f \in StartFiles : data_file = f[1] /\ cache_file = f[2]
  /\ data_file_before = data_file
  /\ changes_file = AbsentFile
  /\ prev_wrapper = None
  /\ prev = None
  /\ prev_index = <<>>
  /\ geocode_cache = <<>>
  /\ pdf_i = 0
  /\ pdf_n = 0
  /\ cur = None
  /\ calls = 0
  /\ html_n = 0
  /\ routes = <<>>
  /\ all_stops = <<>>
  /\ item_failed = FALSE
  /\ events = <<>>
  /\ last = NoCall

\* __main__, lines 623-638: read the previous snapshot and the cache
Load ==
  /\ run_pc = "start"
  /\ LET wrapper == IF data_file.kind = "json" THEN <<data_file.content>> ELSE None
         stops == IF wrapper # None THEN <<wrapper[1].stops>> ELSE None
     IN /\ prev_wrapper' = wrapper
        /\ prev' = stops
        /\ prev_index' = build_prev_stop_index(stops)
  /\ geocode_cache' = load_geocode_cache(cache_file)
  /\ run_pc' = "collect"
  /\ item_failed' = FALSE
  /\ UNCHANGED <<GEOCODE_ENABLED, data_file, data_file_before, cache_file, changes_file,
                 pdf_i, pdf_n, cur, calls, html_n, routes, all_stops,
                 events, last>>
  /\ UNCHANGED <<crawlVars, fnVars>>

\* where scrape_all goes once PDF link i is the next one, with pdf_routes rts
AfterPdfThenHtml(i, n, rts) == IF i <= n THEN "pdf" ELSE "html"

AfterPdf(i, n, rts) ==
  IF i <= n THEN "pdf" ELSE IF rts # <<>> THEN "flatten" ELSE "html"

\* scrape_employee_transport_pdfs, lines 354-363: the listing page; n = 0 is
\* a failed fetch or a page without PDF links
PdfListing ==
  /\ run_pc = "collect"
  /\ \E n \in 0..MaxPdfs :
       /\ pdf_n' = n
       /\ pdf_i' = 1
       /\ run_pc' = AfterPdf(1, n, <<>>)
  /\ item_failed' = FALSE
  /\ UNCHANGED <<GEOCODE_ENABLED, data_file, data_file_before, cache_file, changes_file,
                 prev_wrapper, prev, prev_index, geocode_cache, cur, calls, html_n, routes,
                 all_stops, events, last>>
  /\ UNCHANGED <<crawlVars, fnVars>>

\* lines 366-394, a PDF that is skipped: its download or its parse fails, or
\* it has no text or no stop line
SkipPdf ==
  /\ run_pc = "pdf"
  /\ item_failed' \in BOOLEAN
  /\ pdf_i' = pdf_i + 1
  /\ run_pc' = AfterPdf(pdf_i + 1, pdf_n, routes)
  /\ UNCHANGED <<GEOCODE_ENABLED, data_file, data_file_before, cache_file, changes_file,
                 prev_wrapper, prev, prev_index, geocode_cache, pdf_n, cur, calls, html_n,
                 routes, all_stops, events, last>>
  /\ UNCHANGED <<crawlVars, fnVars>>

\* lines 366-396, a PDF with stop entries: title and carrier label
OpenPdf ==
  /\ run_pc = "pdf"
  /\ calls < MaxResolves
  /\ LET title == PdfTitle(pdf_i) IN
       LET byTitle == detect_fc_from_text(title)
           byUrl == detect_fc_from_text(PdfUrl(pdf_i))
           fc_label == IF byTitle # None THEN byTitle
                       ELSE IF byUrl # None THEN byUrl ELSE UNKNOWN
       IN cur' = [fc |-> fc_label, route |-> title, url |-> PdfUrl(pdf_i),
                  stop_rows |-> <<>>, n |-> 0]
  /\ run_pc' = "stops"
  /\ item_failed' = FALSE
  /\ UNCHANGED <<GEOCODE_ENABLED, data_file, data_file_before, cache_file, changes_file,
                 prev_wrapper, prev, prev_index, geocode_cache, pdf_i, pdf_n, calls, html_n,
                 routes, all_stops, events, last>>
  /\ UNCHANGED <<crawlVars, fnVars>>

\* lines 397-415: one stop entry of the PDF
ResolveStop ==
  /\ run_pc = "stops"
  /\ calls < MaxResolves
  /\ calls' = calls + 1
  /\ \E name \in StopNames, inline \in InlinePairs \cup {None}, outcome \in GeoOutcomes :
       LET fc_label == IF cur.fc # UNKNOWN THEN cur.fc ELSE None
           r == resolve_stop_coordinates(name, fc_label, prev_index, geocode_cache,
                                         inline, outcome)
           coords == r.ret
       IN /\ geocode_cache' = r.cache
          /\ events' = events \o r.events
          /\ last' = [called |-> TRUE, stop_name |-> name, fc_label |-> fc_label,
                      inline |-> inline,
                      outcome |-> IF r.events # <<>> THEN outcome.kind ELSE "none",
                      ret |-> coords, events |-> r.events]
          /\ cur' = [cur EXCEPT
                       !.n = @ + 1,
                       !.stop_rows =
                         IF coords = None THEN @
                         ELSE Append(@, [stop_name |-> name, lat |-> coords[1],
                                         lon |-> coords[2], url |-> cur.url])]
  /\ item_failed' = FALSE
  /\ UNCHANGED <<GEOCODE_ENABLED, run_pc, data_file, data_file_before, cache_file,
                 changes_file, prev_wrapper, prev, prev_index, pdf_i, pdf_n, html_n,
                 routes, all_stops>>
  /\ UNCHANGED <<crawlVars, fnVars>>

\* lines 417-428: end of the PDF's stop entries
ClosePdf ==
  /\ run_pc = "stops"
  /\ cur.n >= 1
  /\ LET rts == IF cur.stop_rows = <<>> THEN routes
                ELSE Append(routes,
                       [fc |-> cur.fc, route |-> cur.route,
                        route_slug |-> slugify(Lower(cur.fc) \o <<"-">> \o cur.route),
                        source |-> cur.url, stops |-> cur.stop_rows])
     IN /\ routes' = rts
        /\ run_pc' = AfterPdf(pdf_i + 1, pdf_n, rts)
  /\ pdf_i' = pdf_i + 1
  /\ cur' = None
  /\ last' = NoCall
  /\ item_failed' = FALSE
  /\ UNCHANGED <<GEOCODE_ENABLED, data_file, data_file_before, cache_file, changes_file,
                 prev_wrapper, prev, prev_index, geocode_cache, pdf_n, calls, html_n,
                 all_stops, events>>
  /\ UNCHANGED <<crawlVars, fnVars>>

\* scrape_all, lines 550-565: one route page of a carrier site; it raises,
\* yields no route, or yields a route
HtmlPage ==
  /\ run_pc = "html"
  /\ html_n < MaxHtmlPages
  /\ html_n' = html_n + 1
  /\ \/ UNCHANGED routes /\ item_failed' = TRUE
     \/ UNCHANGED routes /\ item_failed' = FALSE
     \/ \E r \in HtmlRoutes : routes' = Append(routes, r) /\ item_failed' = FALSE
  /\ UNCHANGED <<GEOCODE_ENABLED, run_pc, data_file, data_file_before, cache_file,
                 changes_file, prev_wrapper, prev, prev_index, geocode_cache, pdf_i,
                 pdf_n, cur, calls, all_stops, events, last>>
  /\ UNCHANGED <<crawlVars, fnVars>>

\* scrape_all, lines 567-568
HtmlDone ==
  /\ run_pc = "html"
  /\ run_pc' = "flatten"
  /\ item_failed' = FALSE
  /\ UNCHANGED <<GEOCODE_ENABLED, data_file, data_file_before, cache_file, changes_file,
                 prev_wrapper, prev, prev_index, geocode_cache, pdf_i, pdf_n, cur,
                 calls, html_n, routes, all_stops, events, last>>
  /\ UNCHANGED <<crawlVars, fnVars>>

\* __main__, lines 640-644: an exception escapes scrape_all and the routes
\* collected so far are discarded. urljoin raises on a malformed href of
\* the employee-transport page in _extract_pdf_links (line 360), or, in the
\* HTML collection, of one crawled page of a site in _links (line 341,
\* reached through the unguarded calls of lines 555 and 476): the parse of
\* that one page fails
CollectRaise ==
  /\ run_pc \in {"collect", "html"}
  /\ routes' = <<>>
  /\ run_pc' = "flatten"
  /\ item_failed' = (run_pc = "html")
  /\ UNCHANGED <<GEOCODE_ENABLED, data_file, data_file_before, cache_file, changes_file,
                 prev_wrapper, prev, prev_index, geocode_cache, pdf_i, pdf_n, cur,
                 calls, html_n, all_stops, events, last>>
  /\ UNCHANGED <<crawlVars, fnVars>>

\* __main__, lines 646-655
Flatten ==
  /\ run_pc = "flatten"
  /\ all_stops' = FlattenRoutes(routes)
  /\ run_pc' = "finalize"
  /\ item_failed' = FALSE
  /\ UNCHANGED <<GEOCODE_ENABLED, data_file, data_file_before, cache_file, changes_file,
                 prev_wrapper, prev, prev_index, geocode_cache, pdf_i, pdf_n, cur,
                 calls, html_n, routes, events, last>>
  /\ UNCHANGED <<crawlVars, fnVars>>

\* __main__, lines 658-743: dedupe, sort, zero-stops guard, write the files
Finalize ==
  /\ run_pc = "finalize"
  /\ IF \E i \in 1..Len(all_stops) : KeyRaises(all_stops[i])
     THEN \* TypeError out of dedupe_stops: the process dies
          /\ run_pc' = "crashed"
          /\ UNCHANGED <<all_stops, data_file, cache_file, changes_file>>
     ELSE LET final == SortStops(duplicate_wro_if_needed(dedupe_stops(all_stops))) IN
          /\ all_stops' = final
          /\ run_pc' = "done"
          /\ IF NoStopsCollected(final)
             THEN /\ UNCHANGED <<data_file, cache_file>>
                  /\ changes_file' = IF prev_wrapper # None
                                     THEN JsonFile(GuardReport(prev))
                                     ELSE changes_file
             ELSE /\ data_file' = JsonFile([generated |-> 1, stops |-> final])
                  /\ cache_file' = IF geocode_cache # <<>>
                                   THEN JsonFile(geocode_cache) ELSE cache_file
                  /\ changes_file' = JsonFile(DiffReport(prev, final))
  /\ item_failed' = FALSE
  /\ UNCHANGED <<GEOCODE_ENABLED, data_file_before, prev_wrapper, prev, prev_index,
                 geocode_cache, pdf_i, pdf_n, cur, calls, html_n, routes, events, last>>
  /\ UNCHANGED <<crawlVars, fnVars>>

\* ------------------------------------------------------------------------
\* Bounded crawler
\* ------------------------------------------------------------------------
MAX_PAGES_PER_HOST == 300

MAX_DEPTH == 2

ExcludedSegments ==
  << <<"/","c","a","t","e","g","o","r","y","/">>,
     <<"/","k","a","t","e","g","o","r","i","a","/">>,
     <<"/","t","a","g","/">>,
     <<"/","p","a","g","e","/">> >>

\* links of the listing page of the wide site, and of each page it lists
WideFanout == 20

\* url.rstrip("/")
RECURSIVE RStripSlash(_)
RStripSlash(u) ==
  IF u # <<>> /\ u[Len(u)] = "/" THEN RStripSlash(SubSeq(u, 1, Len(u) - 1)) ELSE u

\* is c one of urllib.parse.scheme_chars
IsSchemeChar(c) == IsAlnum(c) \/ c \in {"+", "-", "."}

IsAlpha(c) == Code(c) \in (65..90) \cup (97..122)

\* urlsplit(url).netloc for a URL without brackets: leading spaces are
\* dropped; a scheme is what stands before the first ":" when that starts
\* with a letter and holds scheme characters only; the netloc is what
\* follows a "//" standing right after the scheme (or at the start when
\* there is no scheme), up to the next "/", "?" or "#"
Netloc(u) ==
  LET url == LStrip(u)
      colons == {k \in 1..Len(url) : url[k] = ":"}
      i == IF colons = {} THEN 0 ELSE CHOOSE k \in colons : \A j \in colons : k <= j
      hasScheme == /\ i > 1
                   /\ IsAlpha(url[1])
                   /\ \A k \in 1..(i - 1) : IsSchemeChar(url[k])
      rest == IF hasScheme THEN SubSeq(url, i + 1, Len(url)) ELSE url
  IN IF ~StartsWith(rest, <<"/", "/">>) THEN <<>>
     ELSE LET stops == {k \in 3..Len(rest) : rest[k] \in {"/", "?", "#"}}
              e == IF stops = {} THEN Len(rest) + 1
                   ELSE CHOOSE k \in stops : \A j \in stops : k <= j
          IN SubSeq(rest, 3, e - 1)

\* the element of a one-element set (a value computed once and then named)
TheOne(S) == CHOOSE x \in S : TRUE

\* list({x["url"]: x for x in out}.values()): one entry per URL, at the
\* place of the URL's first occurrence, holding its last occurrence
DictValues(out) ==
  LET LastOf(i) == CHOOSE j \in 1..Len(out) :
                     /\ out[j].url = out[i].url
                     /\ \A k \in (j + 1)..Len(out) : out[k].url # out[i].url
  IN TheOne({ [n \in 1..Len(firsts) |-> out[LastOf(firsts[n])]] :
              firsts \in { SelectSeq([i \in 1..Len(out) |-> i],
                             LAMBDA i : \A j \in 1..(i - 1) : out[j].url # out[i].url) } })

\* does _links keep an anchor whose resolved href is href
KeepsLink(href, netloc) ==
  StartsWith(href, <<"h","t","t","p">>) /\ EndsWith(Netloc(href), netloc)

\* _links over the anchors of a page, hrefs already resolved by urljoin
Links(anchors, netloc) ==
  TheOne({ DictValues(out) :
           out \in {SelectSeq(anchors, LAMBDA a : KeepsLink(a.url, netloc))} })

IsExcluded(v) == \E i \in 1..Len(ExcludedSegments) : Contains(v, ExcludedSegments[i])

\* the loop condition of _bfs_collect, line 324
CrawlContinuesOffByOne(q, visited) ==
  q # <<>> /\ Cardinality(visited) <= MAX_PAGES_PER_HOST

CrawlContinues(q, visited) == q # <<>> /\ Cardinality(visited) < MAX_PAGES_PER_HOST

\* does a page popped at this depth have its links enumerated
FollowsLinks(depth) == depth < MAX_DEPTH

\* lines 343-347: is the link with this URL appended to the queue
Admits(url, visited) ==
  LET v == RStripSlash(url) IN ~(v \in visited \/ IsExcluded(v))

\* the entries _bfs_collect appends for a fetched page
RECURSIVE Enqueue(_, _, _)
Enqueue(links, visited, depth) ==
  IF links = <<>> THEN <<>>
  ELSE (IF Admits(Head(links).url, visited)
        THEN << <<RStripSlash(Head(links).url), depth + 1>> >> ELSE <<>>)
       \o Enqueue(Tail(links), visited, depth)

\* the URLs of the links that are appended
AdmittedLinks(links, visited) ==
  {links[i].url : i \in {k \in 1..Len(links) : Admits(links[k].url, visited)}}

\* line 327: was the popped URL visited before
AlreadySeenNever(u, visited) == FALSE

AlreadySeen(u, visited) == u \in visited

\* --- the sites crawled ---------------------------------------------------
Http == <<"h","t","t","p",":","/","/">>

Root == Http \o <<"h",".","p","l">>

Anchor(title, url) == [title |-> title, url |-> url]

Page(osm, anchors) == [osm |-> osm, anchors |-> anchors]

\* a small site: a cycle, one page linked with and without trailing slash
\* and under two titles, a sub-domain, two foreign hosts and tag pages
SmallPages ==
  LET a == Root \o <<"/","a">>
      b == Root \o <<"/","a","/","b">>
      c == Root \o <<"/","a","/","b","/","c">>
      d == Root \o <<"/","a","/","b","/","c","/","d">>
      tagx == Root \o <<"/","t","a","g","/","x">>
      sub == Http \o <<"s",".","h",".","p","l","/","q">>
      twin == Http \o <<"x","h",".","p","l","/","e">>
      other == Http \o <<"o",".","p","l">>
  IN (a :> Page(TRUE, << Anchor(<<"u">>, Root \o <<"/">>), Anchor(<<"b">>, b) >>))
     @@ (b :> Page(TRUE, << Anchor(<<"c">>, c) >>))
     @@ (c :> Page(TRUE, << Anchor(<<"d">>, d) >>))
     @@ (d :> Page(TRUE, <<>>))
     @@ (tagx :> Page(TRUE, <<>>))
     @@ (sub :> Page(FALSE, <<>>))
     @@ (twin :> Page(TRUE, <<>>))
     @@ (other :> Page(TRUE, <<>>))
     @@ (Root :> Page(FALSE,
           << Anchor(<<"1">>, a \o <<"/">>), Anchor(<<"2">>, a),
              Anchor(<<"t">>, tagx), Anchor(<<"g">>, Root \o <<"/","t","a","g","/">>),
              Anchor(<<"s">>, sub), Anchor(<<"x">>, twin), Anchor(<<"o">>, other),
              Anchor(<<"m">>, <<"m","a","i","l","t","o",":","a">>) >>))

SmallSeeds == << Root \o <<"/">>, Root \o <<"/","a","/">>, Root \o <<"/">> >>

\* decimal digits of n
RECURSIVE Digits(_)
Digits(n) == IF n < 10 THEN <<Chr(48 + n)>> ELSE Digits(n \div 10) \o <<Chr(48 + (n % 10))>>

\* a wide site: page 0 lists pages 1..WideFanout, each of which lists
\* WideFanout further pages, which link back to page 0
WideUrl(n) == Root \o <<"/","n">> \o Digits(n)

WideCount == 1 + WideFanout + WideFanout * WideFanout

WideNumber(u) == CHOOSE n \in 0..(WideCount - 1) : WideUrl(n) = u

WidePage(n) ==
  IF n = 0 THEN Page(FALSE, [i \in 1..WideFanout |-> Anchor(<<"n">>, WideUrl(i))])
  ELSE IF n <= WideFanout
       THEN Page(n % 2 = 0,
                 [i \in 1..WideFanout |-> Anchor(<<"n">>, WideUrl(n * WideFanout + i) \o <<"/">>)])
       ELSE Page(n % 2 = 0, << Anchor(<<"u">>, WideUrl(0)) >>)

\* a meshed site, every page of which answers: /m/r is linked from the seed
\* and from /m/p, /m/t is two links and /m/w three links from the seed
MeshPages ==
  LET m == Root \o <<"/","m">>
      p == m \o <<"/","p">>
      r == m \o <<"/","r">>
      t == m \o <<"/","t">>
      w == m \o <<"/","w">>
  IN (m :> Page(FALSE, << Anchor(<<"p">>, p), Anchor(<<"r">>, r \o <<"/">>) >>))
     @@ (p :> Page(TRUE, << Anchor(<<"r">>, r), Anchor(<<"m">>, m) >>))
     @@ (r :> Page(FALSE, << Anchor(<<"t">>, t) >>))
     @@ (t :> Page(TRUE, << Anchor(<<"w">>, w) >>))
     @@ (w :> Page(TRUE, <<>>))

MeshSeeds == << Root \o <<"/","m","/">> >>

SiteIds == {"small", "wide", "mesh"}

SiteSeeds(id) ==
  IF id = "small" THEN SmallSeeds
  ELSE IF id = "mesh" THEN MeshSeeds ELSE << WideUrl(0) >>

\* is there a page at u
SiteHas(id, u) ==
  IF id = "small" THEN u \in DOMAIN SmallPages
  ELSE IF id = "mesh" THEN u \in DOMAIN MeshPages
  ELSE \E n \in 0..(WideCount - 1) : WideUrl(n) = u

SitePage(id, u) ==
  IF id = "small" THEN SmallPages[u]
  ELSE IF id = "mesh" THEN MeshPages[u] ELSE WidePage(WideNumber(u))

\* can the fetch of an existing page fail (the small site is unreliable)
SiteFlaky(id, u) == id = "small"

CrawlIdle ==
  /\ site = "none"
  /\ crawl_pc = "idle"
  /\ host = <<>>
  /\ seen = {}
  /\ queue = <<>>
  /\ kept = <<>>
  /\ fetched = <<>>
  /\ fetch_failed = {}
  /\ admitted = {}
  /\ pages = <<>>

\* _bfs_collect, lines 319-322
CrawlInit ==
  /\ site \in SiteIds
  /\ crawl_pc = "loop"
  /\ host = Netloc(SiteSeeds(site)[1])
  /\ seen = {}
  /\ queue = [i \in 1..Len(SiteSeeds(site)) |-> <<SiteSeeds(site)[i], 0>>]
  /\ kept = <<>>
  /\ fetched = <<>>
  /\ fetch_failed = {}
  /\ admitted = {}
  /\ pages = <<>>

\* lines 324-328: the popped URL was visited before
CrawlSkipRequeues ==
  /\ crawl_pc = "loop"
  /\ CrawlContinues(queue, seen)
  /\ AlreadySeen(RStripSlash(Head(queue)[1]), seen)
  /\ queue' = Append(Tail(queue), Head(queue))
  /\ UNCHANGED <<site, crawl_pc, host, seen, kept, fetched, fetch_failed, admitted, pages>>
  /\ UNCHANGED <<runVars, fnVars>>

CrawlSkip ==
  /\ crawl_pc = "loop"
  /\ CrawlContinues(queue, seen)
  /\ AlreadySeen(RStripSlash(Head(queue)[1]), seen)
  /\ queue' = Tail(queue)
  /\ UNCHANGED <<site, crawl_pc, host, seen, kept, fetched, fetch_failed, admitted, pages>>
  /\ UNCHANGED <<runVars, fnVars>>

\* lines 324-335: the fetch of the popped URL fails
CrawlFailForgets ==
  /\ crawl_pc = "loop"
  /\ CrawlContinues(queue, seen)
  /\ LET u == RStripSlash(Head(queue)[1]) IN
       /\ ~AlreadySeen(u, seen)
       /\ ~SiteHas(site, u) \/ SiteFlaky(site, u)
       /\ fetched' = Append(fetched, u)
       /\ fetch_failed' = fetch_failed \cup {u}
  /\ queue' = Tail(queue)
  /\ UNCHANGED <<site, crawl_pc, host, seen, kept, admitted, pages>>
  /\ UNCHANGED <<runVars, fnVars>>

CrawlFail ==
  /\ crawl_pc = "loop"
  /\ CrawlContinues(queue, seen)
  /\ LET u == RStripSlash(Head(queue)[1]) IN
       /\ ~AlreadySeen(u, seen)
       /\ ~SiteHas(site, u) \/ SiteFlaky(site, u)
       /\ seen' = seen \cup {u}
       /\ fetched' = Append(fetched, u)
       /\ fetch_failed' = fetch_failed \cup {u}
  /\ queue' = Tail(queue)
  /\ UNCHANGED <<site, crawl_pc, host, kept, admitted, pages>>
  /\ UNCHANGED <<runVars, fnVars>>

\* lines 324-349: the popped URL is fetched
CrawlVisitDepthFirst ==
  /\ crawl_pc = "loop"
  /\ CrawlContinues(queue, seen)
  /\ \E u \in {RStripSlash(Head(queue)[1])}, depth \in {Head(queue)[2]} :
       /\ ~AlreadySeen(u, seen)
       /\ SiteHas(site, u)
       /\ \E html \in {SitePage(site, u)} :
          \E links \in {IF FollowsLinks(depth) THEN Links(html.anchors, host) ELSE <<>>} :
            /\ seen' = seen \cup {u}
            /\ fetched' = Append(fetched, u)
            /\ kept' = IF html.osm
                       THEN Append(kept, [title |-> <<>>, url |-> u]) ELSE kept
            /\ queue' = Enqueue(links, seen \cup {u}, depth) \o Tail(queue)
            /\ admitted' = admitted \cup AdmittedLinks(links, seen \cup {u})
  /\ UNCHANGED <<site, crawl_pc, host, fetch_failed, pages>>
  /\ UNCHANGED <<runVars, fnVars>>

CrawlVisit ==
  /\ crawl_pc = "loop"
  /\ CrawlContinues(queue, seen)
  /\ \E u \in {RStripSlash(Head(queue)[1])}, depth \in {Head(queue)[2]} :
       /\ ~AlreadySeen(u, seen)
       /\ SiteHas(site, u)
       /\ \E html \in {SitePage(site, u)} :
          \E links \in {IF FollowsLinks(depth) THEN Links(html.anchors, host) ELSE <<>>} :
            /\ seen' = seen \cup {u}
            /\ fetched' = Append(fetched, u)
            /\ kept' = IF html.osm
                       THEN Append(kept, [title |-> <<>>, url |-> u]) ELSE kept
            /\ queue' = Tail(queue) \o Enqueue(links, seen \cup {u}, depth)
            /\ admitted' = admitted \cup AdmittedLinks(links, seen \cup {u})
  /\ UNCHANGED <<site, crawl_pc, host, fetch_failed, pages>>
  /\ UNCHANGED <<runVars, fnVars>>

\* lines 324 and 351: the loop ends
CrawlReturn ==
  /\ crawl_pc = "loop"
  /\ ~CrawlContinues(queue, seen)
  /\ pages' = DictValues(kept)
  /\ crawl_pc' = "done"
  /\ UNCHANGED <<site, host, seen, queue, kept, fetched, fetch_failed, admitted>>
  /\ UNCHANGED <<runVars, fnVars>>

RunIdle ==
  /\ GEOCODE_ENABLED = TRUE
  /\ run_pc = "idle"
  /\ data_file = AbsentFile
  /\ data_file_before = AbsentFile
  /\ cache_file = AbsentFile
  /\ changes_file = AbsentFile
  /\ prev_wrapper = None
  /\ prev = None
  /\ prev_index = <<>>
  /\ geocode_cache = <<>>
  /\ pdf_i = 0
  /\ pdf_n = 0
  /\ cur = None
  /\ calls = 0
  /\ html_n = 0
  /\ routes = <<>>
  /\ all_stops = <<>>
  /\ item_failed = FALSE
  /\ events = <<>>
  /\ last = NoCall

\* --- pure functions applied to drawn arguments ----------------------------
MaxRows == 3

\* stop rows: the first two differ below the sixth decimal of lat, the
\* third is another stop at the same place, the fourth differs from the
\* first in the sixth decimal of lat
DedupeRows ==
  LET Row(name, lat, tag) ==
        [fc |-> KTW1, route |-> RouteA,
         route_slug |-> slugify(Lower(KTW1) \o <<"-">> \o RouteA),
         source |-> PdfUrl(1), stop_name |-> name, lat |-> Float(lat),
         lon |-> Float(170300000), url |-> tag]
  IN { Row(<<"R","y","n">>, 511000004, <<"1">>), Row(<<"R","y","n">>, 511000000, <<"2">>),
       Row(<<"D","w","a">>, 511000004, <<"3">>), Row(<<"R","y","n">>, 511000016, <<"4">>) }

\* the sequences over a set of length at most n
SeqsUpTo(set, n) == UNION {[1..k -> set] : k \in 0..n}

FnIdle ==
  /\ fn_pc = "idle"
  /\ fn_in = <<>>
  /\ fn_out = <<>>
  /\ fn_again = <<>>

DedupeInit ==
  /\ fn_pc = "dedupe"
  /\ fn_in \in SeqsUpTo(DedupeRows, MaxRows)
  /\ fn_out = <<>>
  /\ fn_again = <<>>

\* dedupe_stops applied to the drawn list
DedupeOnce ==
  /\ fn_pc = "dedupe"
  /\ fn_out' = dedupe_stops(fn_in)
  /\ fn_pc' = "deduped"
  /\ UNCHANGED <<fn_in, fn_again>>
  /\ UNCHANGED <<runVars, crawlVars>>

\* dedupe_stops applied to its own result
DedupeTwice ==
  /\ fn_pc = "deduped"
  /\ fn_again' = dedupe_stops(fn_out)
  /\ fn_pc' = "deduped twice"
  /\ UNCHANGED <<fn_in, fn_out>>
  /\ UNCHANGED <<runVars, crawlVars>>

MaxAnchors == 3

\* the host argument of _links
LinksHost == Netloc(Root)

\* anchors of a page, hrefs resolved: one page under two titles and with a
\* trailing slash, a second page, and two foreign hosts
LinkAnchors ==
  LET a == Root \o <<"/","a">>
      b == Root \o <<"/","b">>
  IN { Anchor(<<"1">>, a), Anchor(<<"2">>, a), Anchor(<<"3">>, b),
       Anchor(<<"4">>, a \o <<"/">>),
       Anchor(<<"5">>, Http \o <<"x","h",".","p","l","/","e">>),
       Anchor(<<"6">>, Http \o <<"o",".","p","l">>) }

LinksInit ==
  /\ fn_pc = "links"
  /\ fn_in \in SeqsUpTo(LinkAnchors, MaxAnchors)
  /\ fn_out = <<>>
  /\ fn_again = <<>>

\* _links applied to the drawn anchors
ApplyLinks ==
  /\ fn_pc = "links"
  /\ fn_out' = Links(fn_in, LinksHost)
  /\ fn_pc' = "linked"
  /\ UNCHANGED <<fn_in, fn_again>>
  /\ UNCHANGED <<runVars, crawlVars>>

vars == <<runVars, crawlVars, fnVars>>

\* one run of the scraper
Init == RunInit /\ CrawlIdle /\ FnIdle

Next ==
  \/ Load
  \/ PdfListing
  \/ SkipPdf
  \/ OpenPdf
  \/ ResolveStop
  \/ ClosePdf
  \/ HtmlPage
  \/ HtmlDone
  \/ CollectRaise
  \/ Flatten
  \/ Finalize

Spec == Init /\ [][Next]_vars

\* one call of _bfs_collect
CrawlStart == CrawlInit /\ RunIdle /\ FnIdle

CrawlNext ==
  \/ CrawlSkip
  \/ CrawlFail
  \/ CrawlVisit
  \/ CrawlReturn

CrawlSpec == CrawlStart /\ [][CrawlNext]_vars

\* _bfs_collect is sequential code: while a step of it can be taken, one is
CrawlFairSpec == CrawlSpec /\ WF_vars(CrawlNext)

\* dedupe_stops on a drawn list
DedupeStart == DedupeInit /\ RunIdle /\ CrawlIdle

DedupeNext ==
  \/ DedupeOnce
  \/ DedupeTwice

DedupeSpec == DedupeStart /\ [][DedupeNext]_vars

\* _links on drawn anchors
LinksStart == LinksInit /\ RunIdle /\ CrawlIdle

LinksNext == ApplyLinks

LinksSpec == LinksStart /\ [][LinksNext]_vars

\* ------------------------------------------------------------------------
\* Properties
\* ------------------------------------------------------------------------
\* the step is one call of resolve_stop_coordinates
ResolverReturned == calls' = calls + 1

LastKey == normalize_stop_name(last.stop_name)

IsGeocodeCall(e) == e.ev = "geocode"

IsSleep(e) == e.ev = "sleep"

ReportListsEmpty(report) ==
  /\ report.new_routes = <<>>
  /\ report.removed_routes = <<>>
  /\ report.new_stops = <<>>
  /\ report.removed_stops = <<>>

\* C1: every stop row of the flattened output of a run has a non-null lat
\* and a non-null lon; a stop no tier resolves is dropped from its route.
C1_FlattenedRowsHaveCoordinates ==
  \A i \in 1..Len(all_stops) : all_stops[i].lat # None /\ all_stops[i].lon # None

\* C2: a run that collected no stop (no route, or scrape_all raised) leaves
\* the snapshot file as it was when the run started, and the diff report it
\* wrote, if any, lists no new or removed route or stop.
C2_ZeroStopsGuard ==
  (run_pc = "done" /\ (routes = <<>> \/ all_stops = <<>>)) =>
    /\ data_file = data_file_before
    /\ changes_file.kind = "json" => ReportListsEmpty(changes_file.content)

\* a run over an existing snapshot collected nothing, kept the snapshot and
\* wrote a report
C2_Witness ==
  /\ run_pc = "done"
  /\ routes = <<>>
  /\ data_file.kind = "json"
  /\ data_file = data_file_before
  /\ changes_file.kind = "json"

\* C3: a crawl never has more than MAX_PAGES_PER_HOST URLs marked visited,
\* and no frontier entry has a depth above MAX_DEPTH.
C3_CrawlCaps ==
  /\ Cardinality(seen) <= MAX_PAGES_PER_HOST
  /\ \A i \in 1..Len(queue) : queue[i][2] <= MAX_DEPTH

\* a crawl stopped by the page cap with depth-MAX_DEPTH entries left over
C3_Witness ==
  /\ crawl_pc = "done"
  /\ Cardinality(seen) = MAX_PAGES_PER_HOST
  /\ queue # <<>>
  /\ \E i \in 1..Len(queue) : queue[i][2] = MAX_DEPTH

\* C4: a resolver call with an inline coordinate returns exactly that pair,
\* issues no geocoder request (and no sleep) and leaves the cache as it was.
C4_InlineFirst ==
  [][(ResolverReturned /\ last'.inline # None) =>
       /\ last'.ret = last'.inline
       /\ events' = events
       /\ geocode_cache' = geocode_cache]_vars

\* an inline coordinate returned for a name that the prior index and the
\* cache both know, the prior index with other coordinates
C4_Witness ==
  /\ last.called
  /\ last.inline # None
  /\ last.ret = last.inline
  /\ LastKey \in DOMAIN prev_index
  /\ Pair(prev_index[LastKey][1].lat, prev_index[LastKey][1].lon) # last.inline
  /\ LastKey \in DOMAIN geocode_cache

\* C5: with geocoding enabled, no inline coordinate and no prior-index
\* entry, a negative cache entry for the normalised name makes the resolver
\* return none.
C5_NegativeHitReturnsNone ==
  [][(/\ ResolverReturned
      /\ GEOCODE_ENABLED
      /\ last'.inline = None
      /\ normalize_stop_name(last'.stop_name) \notin DOMAIN prev_index
      /\ normalize_stop_name(last'.stop_name) \in DOMAIN geocode_cache
      /\ geocode_cache[normalize_stop_name(last'.stop_name)] = NegativeEntry)
     => last'.ret = None]_vars

\* C6: the geocoder is requested only for a normalised name that is absent
\* from the cache, so a run requests each normalised name at most once.
C6_OneLiveCallPerName ==
  [][ResolverReturned =>
       \A i \in (Len(events) + 1)..Len(events') :
         IsGeocodeCall(events'[i]) =>
           /\ events'[i].key \notin DOMAIN geocode_cache
           /\ \A j \in 1..(i - 1) :
                IsGeocodeCall(events'[j]) => events'[j].key # events'[i].key]_vars

\* a name resolved live by one call is answered from the cache by the next
C6_Witness ==
  /\ calls = 2
  /\ GEOCODE_ENABLED
  /\ last.inline = None
  /\ LastKey \notin DOMAIN prev_index
  /\ last.events = <<>>
  /\ Len(events) >= 1
  /\ IsGeocodeCall(events[1])
  /\ events[1].key = LastKey

\* C7: when a resolver call has made a live geocoder request, the cache
\* holds that request's outcome under the normalised name on return: the
\* returned pair for a usable best match, the negative entry for a raised
\* request, an empty result or an unusable result, which all return none.
C7_LiveOutcomeCached ==
  (last.called /\ last.outcome # "none") =>
    /\ LastKey \in DOMAIN geocode_cache
    /\ last.outcome = "ok" =>
         /\ geocode_cache[LastKey].lat # None
         /\ geocode_cache[LastKey].lon # None
         /\ last.ret = Pair(geocode_cache[LastKey].lat, geocode_cache[LastKey].lon)
    /\ last.outcome \in {"fail", "empty", "malformed"} =>
         /\ geocode_cache[LastKey] = NegativeEntry
         /\ last.ret = None

\* a raised geocoder request ended as a negative entry and a none result
C7_Witness ==
  /\ last.called
  /\ last.outcome = "fail"
  /\ last.ret = None
  /\ LastKey \in DOMAIN geocode_cache
  /\ geocode_cache[LastKey] = NegativeEntry

\* C8: with geocoding disabled, a call that reaches tier 3 returns none,
\* issues no geocoder request and leaves the cache as it was, whatever the
\* cache holds for the name.
C8_DisabledReturnsNone ==
  [][(/\ ResolverReturned
      /\ ~GEOCODE_ENABLED
      /\ last'.inline = None
      /\ normalize_stop_name(last'.stop_name) \notin DOMAIN prev_index)
     => /\ last'.ret = None
        /\ events' = events
        /\ geocode_cache' = geocode_cache]_vars

\* geocoding disabled, and none returned for a name whose cache entry is
\* positive
C8_Witness ==
  /\ ~GEOCODE_ENABLED
  /\ last.called
  /\ last.inline = None
  /\ LastKey \notin DOMAIN prev_index
  /\ LastKey \in DOMAIN geocode_cache
  /\ geocode_cache[LastKey].lat # None
  /\ last.ret = None

\* C9: a resolver call whose live request found a best match sleeps the
\* geocode delay after the request and before returning; a call answered
\* by the inline coordinate, the prior index or the cache does not sleep.
C9_DelayAfterSuccess ==
  [][ResolverReturned =>
       /\ last'.outcome = "ok" =>
            /\ Len(last'.events) = 2
            /\ IsGeocodeCall(last'.events[1])
            /\ IsSleep(last'.events[2])
            /\ events' = events \o last'.events
       /\ (\/ last'.inline # None
           \/ normalize_stop_name(last'.stop_name) \in DOMAIN prev_index
           \/ normalize_stop_name(last'.stop_name) \in DOMAIN geocode_cache) =>
            /\ events' = events
            /\ \A i \in 1..Len(last'.events) : ~IsSleep(last'.events[i])]_vars

\* a successful live request, followed by its sleep
C9_Witness ==
  /\ last.called
  /\ last.outcome = "ok"
  /\ Len(events) >= 2
  /\ IsGeocodeCall(events[Len(events) - 1])
  /\ IsSleep(events[Len(events)])

\* C10: between any two consecutive live geocoder requests of a run the
\* flow sleeps the geocode delay, whatever the first request's outcome.
C10_DelayBetweenLiveCalls ==
  \A i, j \in 1..Len(events) :
    (i < j /\ IsGeocodeCall(events[i]) /\ IsGeocodeCall(events[j])) =>
      \E k \in (i + 1)..(j - 1) : IsSleep(events[k])

\* the canonical keys of the rows of a diff list
RowKeys(rows) == {make_stop_key(rows[i]) : i \in 1..Len(rows)}

LabelKeys(rows) == {<<rows[i].fc, rows[i].route_slug>> : i \in 1..Len(rows)}

\* C11: when a previous snapshot exists and the run yields at least one
\* stop, new_stops of the diff report holds one row for each canonical stop
\* key of the new snapshot that the previous snapshot lacks and nothing
\* else, removed_stops the reverse, and new_routes and removed_routes are
\* the same set differences on (fc, route_slug); a stop of both snapshots
\* is in neither list.
C11_DiffIsSetDifference ==
  (run_pc = "done" /\ data_file_before.kind = "json" /\ all_stops # <<>>) =>
    LET old == data_file_before.content.stops
        new == data_file.content.stops
        report == changes_file.content
    IN /\ RowKeys(report.new_stops) = StopKeys(new) \ StopKeys(old)
       /\ Len(report.new_stops) = Cardinality(StopKeys(new) \ StopKeys(old))
       /\ RowKeys(report.removed_stops) = StopKeys(old) \ StopKeys(new)
       /\ Len(report.removed_stops) = Cardinality(StopKeys(old) \ StopKeys(new))
       /\ LabelKeys(report.new_routes) = RouteKeys(new) \ RouteKeys(old)
       /\ Len(report.new_routes) = Cardinality(RouteKeys(new) \ RouteKeys(old))
       /\ LabelKeys(report.removed_routes) = RouteKeys(old) \ RouteKeys(new)
       /\ Len(report.removed_routes) = Cardinality(RouteKeys(old) \ RouteKeys(new))
       /\ \A k \in StopKeys(old) \cap StopKeys(new) :
            k \notin RowKeys(report.new_stops) \cup RowKeys(report.removed_stops)

\* the previous snapshot held one stop, the run found it again and a second
\* stop on the same route: one new stop, nothing removed, no route changed
C11_Witness ==
  /\ run_pc = "done"
  /\ data_file_before.kind = "json"
  /\ Len(data_file_before.content.stops) = 1
  /\ Len(data_file.content.stops) = 2
  /\ StopKeys(data_file_before.content.stops) \subseteq StopKeys(data_file.content.stops)
  /\ RouteKeys(data_file_before.content.stops) = RouteKeys(data_file.content.stops)
  /\ Len(changes_file.content.new_stops) = 1
  /\ changes_file.content.removed_stops = <<>>
  /\ changes_file.content.new_routes = <<>>
  /\ changes_file.content.removed_routes = <<>>

\* C12: the result of dedupe_stops holds no two stops with the same
\* canonical key (fc, route_slug, stop_name, lat and lon rounded to six
\* decimals), and dedupe_stops applied to its own result returns it
\* unchanged.
C12_DedupeIdempotent ==
  /\ fn_pc \in {"deduped", "deduped twice"} =>
       \A i, j \in 1..Len(fn_out) :
         make_stop_key(fn_out[i]) = make_stop_key(fn_out[j]) => i = j
  /\ fn_pc = "deduped twice" => fn_again = fn_out

\* a list whose first and last row share a key, with another stop between,
\* was deduplicated twice
C12_Witness ==
  /\ fn_pc = "deduped twice"
  /\ Len(fn_in) = 3
  /\ make_stop_key(fn_in[1]) = make_stop_key(fn_in[3])
  /\ fn_in[1] # fn_in[3]
  /\ make_stop_key(fn_in[1]) # make_stop_key(fn_in[2])
  /\ Len(fn_out) = 2

\* index in list of the first entry whose url is u
FirstAt(list, u) == CHOOSE i \in 1..Len(list) :
  list[i].url = u /\ \A j \in 1..(i - 1) : list[j].url # u

\* the result of _links has one entry for each distinct URL among the
\* anchors it keeps, in the order in which the URLs first occur
LinksOnePerUrlInOrder ==
  fn_pc = "linked" =>
    /\ {fn_out[i].url : i \in 1..Len(fn_out)} =
         {fn_in[i].url : i \in {k \in 1..Len(fn_in) : KeepsLink(fn_in[k].url, LinksHost)}}
    /\ \A i, j \in 1..Len(fn_out) :
         i < j => FirstAt(fn_in, fn_out[i].url) < FirstAt(fn_in, fn_out[j].url)

\* C13: _links returns one entry per distinct URL, in the order in which
\* each URL was first discovered, and the entry carries the title of the
\* URL's first occurrence.
C13_LinksFirstOccurrence ==
  /\ LinksOnePerUrlInOrder
  /\ fn_pc = "linked" =>
       \A i \in 1..Len(fn_out) :
         fn_out[i].title = fn_in[FirstAt(fn_in, fn_out[i].url)].title

\* netloc is the crawled host or one of its sub-domains
SameSite(netloc, h) == netloc = h \/ EndsWith(netloc, <<".">> \o h)

\* C14: a link is kept only if its host is the crawled host or ends in
\* "." followed by it, so a crawl never enqueues or fetches a page on a host
\* that merely has the crawled host as a string suffix.
C14_NoForeignHost ==
  /\ \A i \in 1..Len(queue) : SameSite(Netloc(queue[i][1]), host)
  /\ \A i \in 1..Len(fetched) : SameSite(Netloc(fetched[i]), host)

\* the step is a failed download or parse of one PDF or of one page of a
\* carrier site, whether the code catches the exception or not
ItemFailed == item_failed'

\* C15: a fetch or parse failure of one PDF or one route page does not
\* abort the collection: the step keeps the routes collected so far and
\* moves on to the next PDF link or stays in the HTML collection for the
\* next page or site, and the PDF loop, once entered, is left only after
\* its last link.
C15_FailureDoesNotAbort ==
  [][ /\ ItemFailed =>
           /\ routes' = routes
           /\ run_pc = "pdf" =>
                /\ pdf_i' = pdf_i + 1
                /\ pdf_i' <= pdf_n => run_pc' = "pdf"
                /\ pdf_i' > pdf_n => run_pc' \in {"html", "flatten"}
           /\ run_pc = "html" => run_pc' = "html"
      /\ (run_pc' \notin {"pdf", "stops"} /\ pdf_i' >= 1) => pdf_i' = pdf_n' + 1
    ]_vars

\* every entry of mapping a is an entry of mapping b
EntriesKept(a, b) == \A k \in DOMAIN a : k \in DOMAIN b /\ b[k] = a[k]

\* C16: no step of a run removes a key of the in-memory geocode cache or
\* replaces the entry of a key it holds, and no step removes or replaces an
\* entry of the cache file, so the file after the run holds every entry it
\* held before.
C16_CacheGrowsMonotonically ==
  [][ /\ EntriesKept(geocode_cache, geocode_cache')
      /\ cache_file.kind = "json" =>
           /\ cache_file'.kind = "json"
           /\ EntriesKept(cache_file.content, cache_file'.content)
    ]_vars

\* a run that started from a cache file with one entry looked up another
\* name and saved both
C16_Witness ==
  /\ run_pc = "done"
  /\ cache_file.kind = "json"
  /\ DOMAIN cache_file.content = {<<"d","w","a">>, <<"r","y","n">>}
  /\ cache_file.content[<<"d","w","a">>] = [lat |-> Float(513000000), lon |-> Float(172000000)]
  /\ \E i \in 1..Len(events) : IsGeocodeCall(events[i]) /\ events[i].key = <<"r","y","n">>

\* the seeds of the crawl, as they are fetched
SeedUrls == {RStripSlash(SiteSeeds(site)[i]) : i \in 1..Len(SiteSeeds(site))}

\* C17: during a crawl no link whose URL contains an exclusion segment
\* (/category/, /kategoria/, /tag/, /page/) is enqueued, at any depth, and a
\* URL containing one is fetched only if it is a seed.
C17_ExcludedNeverEnqueued ==
  crawl_pc # "idle" =>
    /\ \A l \in admitted : ~IsExcluded(l)
    /\ \A i \in 1..Len(fetched) : IsExcluded(fetched[i]) => fetched[i] \in SeedUrls

\* the loop condition of _bfs_collect no longer holds
FrontierEmptyOrCapReached ==
  queue = <<>> \/ Cardinality(seen) = MAX_PAGES_PER_HOST

\* C18: a crawl terminates, whatever cycles the site has and whichever
\* fetches fail, and it ends exactly when the frontier is empty or the
\* number of visited URLs has reached the cap.
C18_CrawlTerminates ==
  /\ <>(crawl_pc = "done")
  /\ [](crawl_pc = "done" => FrontierEmptyOrCapReached)
  /\ [][(crawl_pc = "loop" /\ FrontierEmptyOrCapReached) => crawl_pc' = "done"]_vars

\* a crawl of the small site ended after a failed fetch and after following
\* the link from /a back to the root
C18_Witness ==
  /\ crawl_pc = "done"
  /\ site = "small"
  /\ queue = <<>>
  /\ fetch_failed # {}
  /\ \E i \in 1..Len(fetched) :
       /\ fetched[i] = Root \o <<"/","a">>
       /\ fetched[i] \notin fetch_failed

\* C19: a failed fetch is not fatal to a crawl: the URL stays marked
\* visited, is not kept and adds no link to the frontier, and the crawl
\* goes on; the crawl returns one entry per URL for exactly the visited
\* pages that were fetched and contain the map marker.
C19_FetchFailureNotFatal ==
  [][ /\ fetch_failed' # fetch_failed =>
           /\ \E u \in seen' : fetch_failed' = fetch_failed \cup {u}
           /\ kept' = kept
           /\ queue' = Tail(queue)
           /\ crawl_pc' = "loop"
      /\ crawl_pc' = "done" =>
           /\ {pages'[i].url : i \in 1..Len(pages')} =
                {u \in seen' \ fetch_failed' : SitePage(site', u).osm}
           /\ \A i, j \in 1..Len(pages') : pages'[i].url = pages'[j].url => i = j
    ]_vars

\* a crawl returned pages although the fetch of a page holding the map
\* marker had failed
C19_Witness ==
  /\ crawl_pc = "done"
  /\ pages # <<>>
  /\ \E u \in fetch_failed : SiteHas(site, u) /\ SitePage(site, u).osm
  /\ \A i \in 1..Len(pages) : pages[i].url \notin fetch_failed

\* C20: in one crawl each URL, identified after stripping the trailing
\* slash, is fetched at most once, also when it is listed among the seeds
\* more than once, enqueued several times, or linked with and without a
\* trailing slash.
C20_FetchedAtMostOnce ==
  \A i, j \in 1..Len(fetched) :
    RStripSlash(fetched[i]) = RStripSlash(fetched[j]) => i = j

\* a crawl with a seed listed twice fetched a page that was also a seed and
\* was linked with and without the trailing slash, and emptied its frontier
C20_Witness ==
  /\ crawl_pc = "done"
  /\ queue = <<>>
  /\ Len(SiteSeeds(site)) > Cardinality(SeedUrls)
  /\ {Root \o <<"/","a">>, Root \o <<"/","a","/">>} \subseteq admitted
  /\ Root \o <<"/","a">> \in SeedUrls
  /\ \E i \in 1..Len(fetched) : fetched[i] = Root \o <<"/","a">>

\* C21: a resolver call without inline coordinate for a name of the prior
\* index returns the coordinates of the first entry of that name whose
\* carrier is fc_label, when fc_label is given and there is one, and those
\* of the name's first entry otherwise; the result is not null, no geocoder
\* request is made and the cache stays as it was.
C21_PriorIndexTier ==
  [][(/\ ResolverReturned
      /\ last'.inline = None
      /\ normalize_stop_name(last'.stop_name) \in DOMAIN prev_index) =>
       LET candidates == prev_index[normalize_stop_name(last'.stop_name)]
           label == last'.fc_label
           OfCarrier(i) == candidates[i].fc = label
           Coords(i) == Pair(candidates[i].lat, candidates[i].lon)
       IN /\ IF label # None /\ \E i \in 1..Len(candidates) : OfCarrier(i)
             THEN \E i \in 1..Len(candidates) :
                    /\ OfCarrier(i)
                    /\ \A j \in 1..(i - 1) : ~OfCarrier(j)
                    /\ last'.ret = Coords(i)
             ELSE last'.ret = Coords(1)
          /\ last'.ret # None
          /\ last'.ret[1] # None
          /\ last'.ret[2] # None
          /\ events' = events
          /\ geocode_cache' = geocode_cache]_vars

\* the prior index holds two entries for the name; the call named the
\* carrier of the second and got the second entry's coordinates
C21_Witness ==
  /\ last.called
  /\ last.inline = None
  /\ LastKey \in DOMAIN prev_index
  /\ Len(prev_index[LastKey]) = 2
  /\ last.fc_label # None
  /\ prev_index[LastKey][1].fc # last.fc_label
  /\ prev_index[LastKey][2].fc = last.fc_label
  /\ last.ret = Pair(prev_index[LastKey][2].lat, prev_index[LastKey][2].lon)
  /\ last.ret # Pair(prev_index[LastKey][1].lat, prev_index[LastKey][1].lon)

\* the positions in fn_in of the first stop of each canonical key, ascending
FirstOfKey ==
  SelectSeq([i \in 1..Len(fn_in) |-> i],
    LAMBDA i : \A j \in 1..(i - 1) :
      make_stop_key(fn_in[j]) # make_stop_key(fn_in[i]))

\* C22: the result of dedupe_stops is, for each canonical key of the input,
\* the first input stop with that key and no other stop, in the order in
\* which these stops stand in the input.
C22_FirstOccurrenceWins ==
  fn_pc \in {"deduped", "deduped twice"} =>
    /\ Len(fn_out) = Len(FirstOfKey)
    /\ \A n \in 1..Len(fn_out) : fn_out[n] = fn_in[FirstOfKey[n]]

\* two stops with one key, differing below the sixth decimal, stood around
\* a third stop; the first and the third were kept, in that order
C22_Witness ==
  /\ fn_pc = "deduped"
  /\ Len(fn_in) = 3
  /\ make_stop_key(fn_in[1]) = make_stop_key(fn_in[3])
  /\ fn_in[1].lat # fn_in[3].lat
  /\ make_stop_key(fn_in[2]) # make_stop_key(fn_in[1])
  /\ fn_out = <<fn_in[1], fn_in[2]>>

\* the route was collected from a PDF
FromPdf(r) == \E i \in 1..pdf_n : r.source = PdfUrl(i)

\* C23: when the PDF collection yields a route, scrape_all returns the PDF
\* routes and nothing else and the HTML collection is never entered; the
\* HTML collection runs only after the PDF collection ended without a route.
C23_PdfPreemptsHtml ==
  /\ (\E i \in 1..Len(routes) : FromPdf(routes[i])) =>
       /\ run_pc # "html"
       /\ html_n = 0
       /\ \A i \in 1..Len(routes) : FromPdf(routes[i])
  /\ (run_pc = "html" \/ html_n > 0) =>
       /\ pdf_i = pdf_n + 1
       /\ \A i \in 1..Len(routes) : ~FromPdf(routes[i])

\* a run whose PDF collection gave a route finished without any route page
C23_Witness ==
  /\ run_pc = "done"
  /\ routes # <<>>
  /\ \A i \in 1..Len(routes) : FromPdf(routes[i])
  /\ html_n = 0
  /\ data_file.kind = "json"
  /\ \A i \in 1..Len(data_file.content.stops) :
       \E k \in 1..pdf_n : data_file.content.stops[i].source = PdfUrl(k)

\* the URLs one link away from the page at u over the links the crawl
\* enqueues, whether visited before or not
CrawlHops(u) ==
  IF ~SiteHas(site, u) THEN {}
  ELSE LET links == Links(SitePage(site, u).anchors, host)
       IN {RStripSlash(links[i].url) :
             i \in {k \in 1..Len(links) : Admits(links[k].url, {})}}

\* the URLs one link away from the page at u over links to the crawled host
\* or a sub-domain of it whose URL holds no exclusion segment
SiteHops(u) ==
  IF ~SiteHas(site, u) THEN {}
  ELSE LET anchors == SitePage(site, u).anchors
       IN {RStripSlash(anchors[i].url) :
             i \in {k \in 1..Len(anchors) :
                      /\ StartsWith(anchors[k].url, <<"h","t","t","p">>)
                      /\ SameSite(Netloc(anchors[k].url), host)
                      /\ ~IsExcluded(anchors[k].url)}}

\* the URLs at most k links from a seed
RECURSIVE CrawlWithin(_)
CrawlWithin(k) ==
  IF k = 0 THEN SeedUrls
  ELSE LET near == CrawlWithin(k - 1)
       IN near \cup UNION {CrawlHops(u) : u \in near}

RECURSIVE SiteWithin(_)
SiteWithin(k) ==
  IF k = 0 THEN SeedUrls
  ELSE LET near == SiteWithin(k - 1)
       IN near \cup UNION {SiteHops(u) : u \in near}

\* the frontier holds its entries in non-decreasing depth
FrontierInDepthOrder ==
  \A i, j \in 1..Len(queue) : i <= j => queue[i][2] <= queue[j][2]

\* no fetch has failed and the page cap is not reached
CrawlUnhindered ==
  fetch_failed = {} /\ Cardinality(seen) < MAX_PAGES_PER_HOST

\* C24: the frontier of a crawl is processed in non-decreasing depth order;
\* as long as no fetch has failed every URL is first visited at its least
\* number of links from the seeds; and a crawl that ends with no failed
\* fetch and below the page cap has visited every URL within MAX_DEPTH
\* links of a seed over same-host links without exclusion segment.
C24_BreadthFirstComplete ==
  /\ [](crawl_pc # "idle" => FrontierInDepthOrder)
  /\ [][(seen' # seen /\ fetch_failed' = {}) =>
         \E u \in seen' \ seen, depth \in {Head(queue)[2]} :
           /\ depth <= MAX_DEPTH
           /\ u \in CrawlWithin(depth)
           /\ depth > 0 => u \notin CrawlWithin(depth - 1)]_vars
  /\ []((crawl_pc = "done" /\ CrawlUnhindered) =>
         /\ SiteWithin(MAX_DEPTH) \subseteq seen
         /\ CrawlWithin(MAX_DEPTH) \subseteq seen)

\* a crawl of the meshed site ended with no failed fetch: /m/r, enqueued at
\* depths 1 and 2, was visited before /m/t, which was visited too, and /m/w,
\* three links away, was not
C24_Witness ==
  /\ crawl_pc = "done"
  /\ CrawlUnhindered
  /\ site = "mesh"
  /\ fetched = << Root \o <<"/","m">>, Root \o <<"/","m","/","p">>,
                  Root \o <<"/","m","/","r">>, Root \o <<"/","m","/","t">> >>
  /\ {Root \o <<"/","m","/","r">>, Root \o <<"/","m","/","r","/">>} \subseteq admitted
  /\ seen = SiteWithin(MAX_DEPTH)
  /\ Root \o <<"/","m","/","w">> \notin seen

====
